---- MODULE Spec2Model ----
(***************************************************************************)
(* Model of the pagination engine of congress_api:                         *)
(*   BaseEndpoint._get      (congress_api/endpoints/base.py)               *)
(*   CongressClient.get     (congress_api/client.py), seen from _get as a  *)
(*                          call that returns a body or raises             *)
(* One logical fetch is one call of _get.  The call is cut at the          *)
(* transport calls: every action is the code that runs between two         *)
(* returns of client.get, and the body (or the error) that client.get      *)
(* hands back is the input of the action.                                  *)
(***************************************************************************)
EXTENDS Integers, Sequences, FiniteSets, TLC

(***************************************************************************)
(* Bounds and input sets                                                   *)
(***************************************************************************)
\* upper bound on the transport calls of one fetch (the loop itself has none)
MaxCalls == 3

\* BaseEndpoint.MAX_LIMIT
MAX_LIMIT == 250

\* record lists a page may carry
PageDatas == { <<>>, <<"r1">>, <<"r2", "r1">> }

DataKeys == {"bills", "amendments"}
ReservedKeys == {"pagination", "request"}

(***************************************************************************)
(* Python dicts with string keys: functions over a finite set of strings   *)
(***************************************************************************)
EmptyDict == [k \in {} |-> 0]

DictSet(d, k, v) == [x \in (DOMAIN d) \cup {k} |-> IF x = k THEN v ELSE d[x]]

DictDel(d, k) == [x \in (DOMAIN d) \ {k} |-> d[x]]

(***************************************************************************)
(* Caller arguments                                                        *)
(***************************************************************************)
\* the params argument: None, or a mapping
NoneParams == [none |-> TRUE, d |-> EmptyDict]

SomeParams(d) == [none |-> FALSE, d |-> d]

ParamInputs ==
    { NoneParams,
      SomeParams([k \in {"sort"} |-> "asc"]),
      SomeParams([k \in {"sort", "offset"} |-> IF k = "offset" THEN 300 ELSE "asc"]),
      SomeParams([k \in {"offset", "limit"} |-> IF k = "offset" THEN 7 ELSE 5]) }

\* the limit argument: an int, or a str
IntLimit(n) == [isInt |-> TRUE, n |-> n, s |-> ""]

StrLimit(s) == [isInt |-> FALSE, n |-> 0, s |-> s]

LimitInputs ==
    { IntLimit(n) : n \in {-1, 0, 1, 20, 250, 251} }
        \cup { StrLimit("all"), StrLimit("ALL") }

(***************************************************************************)
(* What client.get returns: a parsed JSON object or the raw content        *)
(***************************************************************************)
\* a pagination object: the keys it has, and the value of count
Pagination(has, count) == [has |-> has, count |-> count]

EmptyPagination == Pagination({}, 0)

PaginationInputs ==
    { Pagination({"next"}, 0),
      Pagination({"count"}, 3),
      Pagination({"count", "next"}, 7) }

\* a JSON object: its keys in iteration order and the values under them
JsonBody(keys, data, pagination, request) ==
    [kind |-> "json", keys |-> keys, data |-> data,
     pagination |-> pagination, request |-> request]

\* response.content of a non-JSON reply
RawBody ==
    [kind |-> "raw", keys |-> <<>>, data |-> [k \in DataKeys |-> <<>>],
     pagination |-> EmptyPagination, request |-> ""]

\* no value: the call has not returned, or it raised
NoBody ==
    [kind |-> "none", keys |-> <<>>, data |-> [k \in DataKeys |-> <<>>],
     pagination |-> EmptyPagination, request |-> ""]

\* the data keys of a body, in iteration order, and the lists under them
DataShapes ==
    { [keys |-> <<>>, data |-> [k \in DataKeys |-> <<>>]] }
    \cup { [keys |-> <<"bills">>,
            data |-> [k \in DataKeys |-> IF k = "bills" THEN d ELSE <<>>]]
           : d \in PageDatas }
    \cup { [keys |-> <<"amendments">>,
            data |-> [k \in DataKeys |-> IF k = "amendments" THEN <<"r2">> ELSE <<>>]] }
    \cup { [keys |-> <<"amendments", "bills">>,
            data |-> [k \in DataKeys |-> IF k = "bills" THEN <<"r1">> ELSE <<"r2">>]] }

Bodies ==
    { JsonBody(sh.keys \o pk \o rk, sh.data,
               IF pk = <<>> THEN EmptyPagination ELSE pg,
               IF rk = <<>> THEN "" ELSE rq)
        : sh \in DataShapes,
          pk \in { <<>>, <<"pagination">> },
          pg \in PaginationInputs,
          rk \in { <<>>, <<"request">> },
          rq \in {"e1"} }
    \cup { RawBody }

HasKey(body, k) == \E i \in 1..Len(body.keys) : body.keys[i] = k

\* response[key], the list of records under key (no list: no records)
Data(body, key) == IF key \in DOMAIN body.data THEN body.data[key] ELSE <<>>

\* response.get('pagination', {})
GetPagination(body) ==
    IF HasKey(body, "pagination") THEN body.pagination ELSE EmptyPagination

\* response.get('request', {}); "{}" is the empty object
GetRequest(body) ==
    IF HasKey(body, "request") THEN body.request ELSE "{}"

\* next((k for k in response.keys() if k not in [...]), None); "" is None
RECURSIVE FirstDataKey(_)
FirstDataKey(keys) ==
    IF keys = <<>> THEN ""
    ELSE IF Head(keys) \notin ReservedKeys THEN Head(keys)
    ELSE FirstDataKey(Tail(keys))

(***************************************************************************)
(* Errors                                                                  *)
(***************************************************************************)
NoError == [type |-> "none", msg |-> ""]

Error(type, msg) == [type |-> type, msg |-> msg]

\* what client.get raises
TransportErrors ==
    { Error("CongressAPIError", "API request failed: 500"),
      Error("CongressAPIError", "API request failed: timeout") }

(***************************************************************************)
(* The pieces of BaseEndpoint._get                                         *)
(***************************************************************************)
\* params = params or {}
ParamsOrEmpty(p) == IF p.none \/ p.d = EmptyDict THEN EmptyDict ELSE p.d

\* a variant with the lower end of the range off by one
ValidIntLimit_FromZero(l) == l.isInt /\ 0 <= l.n /\ l.n <= MAX_LIMIT

\* isinstance(limit, int) and 1 <= limit <= self.MAX_LIMIT
ValidIntLimit(l) == l.isInt /\ 1 <= l.n /\ l.n <= MAX_LIMIT

\* a variant that lets the caller's own 'limit' entry win
FirstQuery_KeepLimit(p, lim) ==
    IF "limit" \in DOMAIN p THEN p ELSE DictSet(p, "limit", lim)

\* the query of the first (or only) request: a copy of params, its own
\* 'limit' entry removed, 'limit' set to lim
FirstQuery(p, lim) == DictSet(DictDel(p, "limit"), "limit", lim)

\* a variant that lets the caller's own 'limit' entry win in follow-ups
NextQuery_KeepLimit(p, off) ==
    DictSet(IF "limit" \in DOMAIN p THEN p ELSE DictSet(p, "limit", MAX_LIMIT), "offset", off)

\* a variant that builds the follow-up query from scratch
NextQuery_DropsParams(p, off) ==
    DictSet(DictSet(EmptyDict, "offset", off), "limit", MAX_LIMIT)

\* the query of a follow-up request: a fresh copy of params with 'offset'
\* and 'limit' overwritten
NextQuery(p, off) == DictSet(DictSet(p, "offset", off), "limit", MAX_LIMIT)

\* a variant that never takes the branch
MissingDataKey_Never(key) == FALSE

\* if not data_key
MissingDataKey(key) == key = ""

\* total_count = pagination.get('count', 0)
TotalCount(pg) == IF "count" \in pg.has THEN pg.count ELSE 0

\* offset = self.MAX_LIMIT
InitialOffset(first_results) == MAX_LIMIT

\* offset += len(current_results)
AdvanceOffset(off, current_results) == off + Len(current_results)

\* a variant that puts the new page in front
Extend_Prepend(results, current_results) == current_results \o results

\* all_results.extend(current_results)
Extend(results, current_results) == results \o current_results

\* a variant that reports the number of records gathered as the count
FinalResponse_LenCount(key, results, count, last) ==
    JsonBody(<<key, "pagination", "request">>,
             [k \in DataKeys |-> IF k = key THEN results ELSE <<>>],
             Pagination({"count"}, Len(results)),
             GetRequest(last))

\* a variant that copies the request echo only when the last page has one
FinalResponse_NoRequestDefault(key, results, count, last) ==
    JsonBody(IF HasKey(last, "request") THEN <<key, "pagination", "request">>
                                        ELSE <<key, "pagination">>,
             [k \in DataKeys |-> IF k = key THEN results ELSE <<>>],
             Pagination({"count"}, count),
             IF HasKey(last, "request") THEN last.request ELSE "")

\* final_response = {data_key: ..., 'pagination': {'count': ...}, 'request': ...}
FinalResponse(key, results, count, last) ==
    JsonBody(<<key, "pagination", "request">>,
             [k \in DataKeys |-> IF k = key THEN results ELSE <<>>],
             Pagination({"count"}, count),
             GetRequest(last))

\* a variant that rebuilds the page the way the final response is built
SinglePage_Rebuilt(first, key, count) ==
    FinalResponse(key, Data(first, key), count, first)

\* return response (the first page has no next)
SinglePage(first, key, count) == first

InvalidIntLimit == Error("ValueError", "Limit must be between 1 and 250 or 'all'")

InvalidLimit == Error("ValueError", "Limit must be an integer between 1-250 or 'all'")

NoDataKey == Error("ValueError", "Unable to determine data key in response")

(***************************************************************************)
(* CongressClient.get: the one HTTP request and what comes of it           *)
(***************************************************************************)
\* an optional attribute of CongressAPIError: None, or a value
NoStatus == [has |-> FALSE, v |-> 0]

SomeStatus(n) == [has |-> TRUE, v |-> n]

NoText == [has |-> FALSE, v |-> ""]

SomeText(t) == [has |-> TRUE, v |-> t]

\* the status codes a server answers with
Statuses == {200, 204, 301, 304, 400, 401, 404, 429, 500, 503}

\* the content-type header of a reply ("" when the header is missing)
ContentTypes == {"application/json", "application/json; charset=utf-8", "application/xml", ""}

\* 'application/json' in content_type
IsJson(ctype) == ctype \in {"application/json", "application/json; charset=utf-8"}

JsonTexts == {"{}", "[1]"}

Texts == JsonTexts \cup {"<xml/>", ""}

\* session.request raised before any reply arrived: e.response is None
NoReply(kind, text) ==
    [kind |-> kind, status |-> 0, ctype |-> "", text |-> text]

\* session.request returned a reply
Reply(status, ctype, text) ==
    [kind |-> "Response", status |-> status, ctype |-> ctype, text |-> text]

\* what session.request can do; a reply announced as JSON carries text that
\* parses as JSON
HttpOutcomes ==
    {NoReply("ConnectionError", "Connection refused"), NoReply("Timeout", "Read timed out")}
        \cup {Reply(st, ct, t) : st \in Statuses, ct \in {c \in ContentTypes : IsJson(c)}, t \in JsonTexts}
        \cup {Reply(st, ct, t) : st \in Statuses, ct \in {c \in ContentTypes : ~IsJson(c)}, t \in Texts}

\* response.raise_for_status() raises HTTPError for a 4xx or 5xx status only
RaisesForStatus_ServerOnly(status) == status >= 500 /\ status < 600

RaisesForStatus(status) == status >= 400 /\ status < 600

\* the RequestException the try block sees, or none
RequestFailed(out) ==
    \/ out.kind \in {"ConnectionError", "Timeout"}
    \/ out.kind = "Response" /\ RaisesForStatus(out.status)

\* str(e)
StrOfException(out) ==
    IF out.kind = "Response" THEN ToString(out.status) \o " Error" ELSE out.text

\* the except clause: CongressAPIError(message, status_code, response)
CongressAPIError(out) ==
    [type |-> "CongressAPIError",
     message |-> "API request failed: " \o StrOfException(out),
     status_code |-> IF out.kind = "Response" THEN SomeStatus(out.status) ELSE NoStatus,
     response |-> IF out.kind = "Response" THEN SomeText(out.text) ELSE NoText]

NoException == [type |-> "", message |-> "", status_code |-> NoStatus, response |-> NoText]

\* response.json() if the reply is announced as JSON, else response.content
Returned(out) ==
    IF IsJson(out.ctype) THEN [kind |-> "json", text |-> out.text]
    ELSE [kind |-> "raw", text |-> out.text]

NothingReturned == [kind |-> "none", text |-> ""]

HttpStart ==
    [pc |-> "Start", attempts |-> 0, sent |-> EmptyDict, out |-> NoReply("", ""),
     returned |-> NothingReturned, exc |-> NoException]

(***************************************************************************)
(* Configuration and client construction                                   *)
(***************************************************************************)
\* max_limit = 250 in load_config
CONFIG_MAX_LIMIT == 250

\* default_congress = 118 in load_config
DEFAULT_CONGRESS == 118

\* the environment load_config reads; base URL, retry count and timeout are
\* left unset
EnvNames == {"CONGRESS_API_KEY", "CONGRESS_API_FORMAT"}

EnvInputs ==
    { [n \in EnvNames |-> IF n = "CONGRESS_API_KEY" THEN k ELSE f] :
        k \in {NoText, SomeText(""), SomeText("k1")},
        f \in {NoText, SomeText("xml")} }

\* os.getenv(name, default)
Getenv(env, name, default) == IF env[name].has THEN env[name].v ELSE default

\* int(s) for the decimal strings the defaults carry
int(s) == CASE s = "3" -> 3 [] s = "30" -> 30

\* a variant in which only an unset key counts as missing
KeyMissing_UnsetOnly(env) == ~env["CONGRESS_API_KEY"].has

\* not api_key: the variable is unset, or set to the empty string
KeyMissing(env) == ~env["CONGRESS_API_KEY"].has \/ env["CONGRESS_API_KEY"].v = ""

\* the APIConfig load_config returns
APIConfig(env) ==
    [api_key |-> Getenv(env, "CONGRESS_API_KEY", ""),
     base_url |-> "https://api.congress.gov/v3/",
     default_format |-> Getenv(env, "CONGRESS_API_FORMAT", "json"),
     max_retries |-> int("3"),
     timeout |-> int("30"),
     max_limit |-> CONFIG_MAX_LIMIT,
     default_congress |-> DEFAULT_CONGRESS]

NoConfig ==
    [api_key |-> "", base_url |-> "", default_format |-> "", max_retries |-> 0,
     timeout |-> 0, max_limit |-> 0, default_congress |-> 0]

NoEnv == [n \in EnvNames |-> NoText]

MissingKey == Error("CongressAPIError", "CONGRESS_API_KEY environment variable is required")

\* session.headers.update(...) in _init_session
SessionHeaders(cfg) ==
    [h \in {"x-api-key", "accept"} |->
        IF h = "x-api-key" THEN cfg.api_key
        ELSE IF cfg.default_format = "json" THEN "application/json" ELSE "application/xml"]

NoClient == [built |-> FALSE, config |-> NoConfig, headers |-> SessionHeaders(NoConfig), base_url |-> ""]

(***************************************************************************)
(* Endpoint methods: argument values, validation, paths                    *)
(***************************************************************************)
\* a Python value an argument can hold: None, an int, a str
NoneV == [kind |-> "none", n |-> 0, s |-> ""]

IntV(n) == [kind |-> "int", n |-> n, s |-> ""]

StrV(s) == [kind |-> "str", n |-> 0, s |-> s]

\* the argument was not passed at the call site
AbsentV == [kind |-> "absent", n |-> 0, s |-> ""]

\* bool(v)
Truthy(v) == (v.kind = "int" /\ v.n # 0) \/ (v.kind = "str" /\ v.s # "")

\* congress or self.client.config.default_congress
OrDefault(v, default) == IF Truthy(v) THEN v ELSE IntV(default)

\* f"{v}"
Format(v) ==
    CASE v.kind = "int" -> ToString(v.n)
      [] v.kind = "str" -> v.s
      [] OTHER -> "None"

\* the type strings callers pass
TypeStrings == {"hr", "HR", "SRES", "sres", "hamdt", "HAMDT", "SAmdt", "xx", ""}

\* str.lower() on those strings
Lower(s) ==
    CASE s = "HR" -> "hr"
      [] s = "SRES" -> "sres"
      [] s = "HAMDT" -> "hamdt"
      [] s = "SAmdt" -> "samdt"
      [] OTHER -> s

VALID_AMENDMENT_TYPES == {"hamdt", "samdt", "suamdt", "sres"}

TEXT_SUPPORTED_AMENDMENT_TYPES == {"hamdt", "samdt", "suamdt", "sres"}

MIN_TEXT_CONGRESS == 118

VALID_BILL_TYPES == {"hr", "s", "hjres", "sjres", "hconres", "sconres", "hres", "sres"}

\* type(v).__name__
TypeName(v) == CASE v.kind = "int" -> "int" [] v.kind = "str" -> "str" [] OTHER -> "NoneType"

\* v.lower() where v is not a str
NoLower(v) == Error("AttributeError", "'" \o TypeName(v) \o "' object has no attribute 'lower'")

BillTypeError(bill_type) ==
    Error("BillTypeError", "Invalid bill type: " \o Format(bill_type)
              \o ". Must be one of: hconres, hjres, hr, hres, s, sconres, sjres, sres")

BillNumberError(bill_number) ==
    Error("BillNumberError", "Invalid bill number: " \o Format(bill_number)
              \o ". Must be a positive integer.")

CongressNumberError(congress) ==
    Error("CongressNumberError", "Invalid congress number: " \o Format(congress)
              \o ". Must be a positive integer.")

AmendmentTypeError(amendment_type) ==
    Error("AmendmentTypeError", "Invalid amendment type: " \o Format(amendment_type)
              \o ". Must be one of: hamdt, samdt, sres, suamdt")

AmendmentTextError(congress) ==
    Error("AmendmentTextError", "Text endpoint is only available for congress >= 117 (got "
              \o Format(congress) \o ")")

\* congress < MIN_TEXT_CONGRESS where congress is a str
NotComparable == Error("TypeError", "'<' not supported between instances of 'str' and 'int'")

\* a required positional argument was not passed
MissingArgument(name) ==
    Error("TypeError", "missing 1 required positional argument: '" \o name \o "'")

\* a variant that compares the type as written
validate_bill_type_CaseSensitive(bill_type) ==
    IF bill_type.kind # "str" THEN NoLower(bill_type)
    ELSE IF bill_type.s \notin VALID_BILL_TYPES THEN BillTypeError(bill_type)
    ELSE NoError

\* BillEndpoint._validate_bill_type: what it raises (NoError: nothing)
validate_bill_type(bill_type) ==
    IF bill_type.kind # "str" THEN NoLower(bill_type)
    ELSE IF Lower(bill_type.s) \notin VALID_BILL_TYPES THEN BillTypeError(bill_type)
    ELSE NoError

\* BillEndpoint._validate_bill_number
validate_bill_number(bill_number) ==
    IF ~(bill_number.kind = "int") \/ bill_number.n <= 0 THEN BillNumberError(bill_number)
    ELSE NoError

\* BillEndpoint._validate_congress
validate_congress(congress) ==
    IF ~(congress.kind = "int") \/ congress.n <= 0 THEN CongressNumberError(congress)
    ELSE NoError

\* AmendmentEndpoint._validate_amendment_type
validate_amendment_type(amendment_type, text_endpoint) ==
    LET valid_types == IF text_endpoint THEN TEXT_SUPPORTED_AMENDMENT_TYPES
                       ELSE VALID_AMENDMENT_TYPES
    IN  IF amendment_type.kind # "str" THEN NoLower(amendment_type)
        ELSE IF Lower(amendment_type.s) \notin valid_types THEN AmendmentTypeError(amendment_type)
        ELSE NoError

\* the first check that raises decides
RECURSIVE FirstError(_)
FirstError(checks) ==
    IF checks = <<>> THEN NoError
    ELSE IF Head(checks) # NoError THEN Head(checks)
    ELSE FirstError(Tail(checks))

\* the params dict a method builds when its optional arguments are left at
\* their defaults
FormatOnly == [k \in {"format"} |-> StrV("json")]

FormatOffset == [k \in {"format", "offset"} |-> IF k = "format" THEN StrV("json") ELSE IntV(0)]

WithDates(d) == DictSet(DictSet(d, "fromDateTime", NoneV), "toDateTime", NoneV)

WithSort(d) == DictSet(d, "sort", NoneV)

\* the argument values callers pass
TypeInputs == {StrV(t) : t \in TypeStrings}

NumberInputs == {IntV(-5), IntV(0), IntV(928), StrV("12")}

CongressInputs ==
    {NoneV, IntV(-1), IntV(0), IntV(117), IntV(118), IntV(119), StrV("abc")}

\* the BillEndpoint methods of the form bill/{congress}/{type}/{number}/{suffix}
BillSubResources ==
    {"get_actions", "get_amendments", "get_committees", "get_cosponsors",
     "get_related_bills", "get_subjects", "get_summaries", "get_text", "get_titles"}

BillSuffix(method) ==
    CASE method = "get_actions" -> "actions"
      [] method = "get_amendments" -> "amendments"
      [] method = "get_committees" -> "committees"
      [] method = "get_cosponsors" -> "cosponsors"
      [] method = "get_related_bills" -> "relatedbills"
      [] method = "get_subjects" -> "subjects"
      [] method = "get_summaries" -> "summaries"
      [] method = "get_text" -> "text"
      [] method = "get_titles" -> "titles"

BillParams(method) ==
    IF method \in {"get_subjects", "get_titles"} THEN WithDates(FormatOffset) ELSE FormatOffset

\* the AmendmentEndpoint methods of the form
\* amendment/{congress}/{type}/{number}/{suffix}, get_text apart
AmendmentSubResources == {"get_actions", "get_cosponsors", "get_amendments"}

AmendmentSuffix(method) ==
    CASE method = "get_actions" -> "actions"
      [] method = "get_cosponsors" -> "cosponsors"
      [] method = "get_amendments" -> "amendments"

\* how a caller writes a call: positional arguments, then keyword arguments
Form(pos, kw) == [pos |-> pos, kw |-> kw]

NoForm == Form(<<>>, EmptyDict)

Kw1(name, v) == [k \in {name} |-> v]

Kw2(name1, v1, name2, v2) == [k \in {name1, name2} |-> IF k = name1 THEN v1 ELSE v2]

\* the ways callers write a call of amendment.list_by_congress
ListByCongressForms ==
    { Form(<<>>, EmptyDict),
      Form(<<>>, Kw1("congress", IntV(117))),
      Form(<<>>, Kw1("congress", IntV(118))),
      Form(<<IntV(117)>>, EmptyDict),
      Form(<<StrV("hamdt")>>, EmptyDict),
      Form(<<StrV("xx")>>, EmptyDict),
      Form(<<StrV("SAmdt")>>, Kw1("congress", IntV(117))),
      Form(<<>>, Kw1("amendment_type", StrV("HAMDT"))),
      Form(<<>>, Kw2("amendment_type", StrV("samdt"), "congress", IntV(0))) }

\* the def statements of the body of class AmendmentEndpoint, in order, with
\* the leading parameters a call can bind (after self) and how many of them
\* have no default
AmendmentEndpointDefs ==
    << [name |-> "_validate_amendment_type", line |-> 21, names |-> <<"amendment_type">>, required |-> 1],
       [name |-> "list_all", line |-> 36, names |-> <<>>, required |-> 0],
       [name |-> "list_by_congress", line |-> 64, names |-> <<"congress">>, required |-> 0],
       [name |-> "list_by_congress", line |-> 96, names |-> <<"amendment_type", "congress">>, required |-> 1],
       [name |-> "get_amendment", line |-> 137, names |-> <<"amendment_type", "amendment_number", "congress">>, required |-> 2],
       [name |-> "get_actions", line |-> 167, names |-> <<"amendment_type", "amendment_number", "congress">>, required |-> 2],
       [name |-> "get_cosponsors", line |-> 204, names |-> <<"amendment_type", "amendment_number", "congress">>, required |-> 2],
       [name |-> "get_amendments", line |-> 241, names |-> <<"amendment_type", "amendment_number", "congress">>, required |-> 2],
       [name |-> "get_text", line |-> 278, names |-> <<"amendment_type", "amendment_number", "congress">>, required |-> 2] >>

\* the attribute a name denotes once the class body has run: each def binds
\* its name, a later def of the same name replaces the earlier one
Resolve(defs, name) ==
    LET at == {i \in 1..Len(defs) : defs[i].name = name}
    IN  defs[CHOOSE i \in at : \A j \in at : j <= i]

\* the value the call binds to the i-th parameter of def d (AbsentV: none)
Bound(d, form, i) ==
    IF i <= Len(form.pos) THEN form.pos[i]
    ELSE IF d.names[i] \in DOMAIN form.kw THEN form.kw[d.names[i]]
    ELSE AbsentV

\* the value bound to the parameter called name (AbsentV: none, or no such parameter)
BoundTo(d, form, name) ==
    LET at == {i \in 1..Len(d.names) : d.names[i] = name}
    IN  IF at = {} THEN AbsentV ELSE Bound(d, form, CHOOSE i \in at : TRUE)

\* the TypeError of a call that does not fit the signature of d (NoError: it fits)
BindError(d, form) ==
    LET missing == {i \in 1..d.required : Bound(d, form, i) = AbsentV}
        names == {d.names[i] : i \in 1..Len(d.names)}
        unknown == (DOMAIN form.kw) \ names
        twice == {i \in 1..Len(d.names) : i <= Len(form.pos) /\ d.names[i] \in DOMAIN form.kw}
    IN  IF unknown # {}
        THEN Error("TypeError", "got an unexpected keyword argument '"
                                    \o (CHOOSE k \in unknown : TRUE) \o "'")
        ELSE IF twice # {}
        THEN Error("TypeError", "got multiple values for argument '"
                                    \o d.names[CHOOSE i \in twice : TRUE] \o "'")
        ELSE IF missing # {}
        THEN MissingArgument(d.names[CHOOSE i \in missing : \A j \in missing : i <= j])
        ELSE NoError

\* an optional parameter that was not passed holds its default, None
OrNone(v) == IF v = AbsentV THEN NoneV ELSE v

NoArgs == [type |-> AbsentV, number |-> AbsentV, congress |-> AbsentV]

\* a variant that sends the query as it was handed over
Wire_AsGiven(q, written) == q

\* the query string session.request sends for params=q: requests leaves out
\* the keys whose value is None; the keys in written hold the ints _get put
\* there
Wire(q, written) == [k \in {x \in DOMAIN q : x \in written \/ q[x] # NoneV} |-> q[k]]

\* what goes on the wire once _get(endpoint, params, l) is entered: the first
\* request and, for 'all', the follow-up request made if the first page has
\* next
WireQueries(params, l) ==
    IF l.isInt THEN <<Wire(FirstQuery(params, l.n), {"limit"})>>
    ELSE <<Wire(FirstQuery(params, MAX_LIMIT), {"limit"}),
           Wire(NextQuery(params, InitialOffset(<<>>)), {"limit", "offset"})>>

NoCall ==
    [pc |-> "Start", method |-> "", form |-> NoForm, args |-> NoArgs, error |-> NoError,
     endpoint |-> <<>>, params |-> EmptyDict, limit |-> IntLimit(0), wire |-> <<>>]

\* the method raised before calling _get
Raises(method, args, e) ==
    [pc |-> "Raised", method |-> method, form |-> NoForm, args |-> args, error |-> e,
     endpoint |-> <<>>, params |-> EmptyDict, limit |-> IntLimit(0), wire |-> <<>>]

\* the method called self._get(endpoint, params=params, limit=limit); the
\* endpoint is kept as its segments between the slashes
Enters(method, args, endpoint, params, l) ==
    [pc |-> "Entered", method |-> method, form |-> NoForm, args |-> args, error |-> NoError,
     endpoint |-> endpoint, params |-> params, limit |-> l, wire |-> WireQueries(params, l)]

(***************************************************************************)
(* Concurrent fetches: objects, references, the server                     *)
(***************************************************************************)
\* the number of fetches that run at the same time
NumFetches == 2

FetchIds == 1..NumFetches

\* a dict object lives in a cell; names hold references to cells
CallerCell(i) == [kind |-> "caller", id |-> i]

\* the {} that 'params or {}' creates in fetch f
LocalCell(f) == [kind |-> "local", id |-> f]

\* the object deepcopy creates in fetch f
CopyCell(f) == [kind |-> "copy", id |-> f]

\* params=None
NoCell == [kind |-> "none", id |-> 0]

CallerCells == {CallerCell(1), CallerCell(2)}

Cells == CallerCells \cup {LocalCell(f) : f \in FetchIds} \cup {CopyCell(f) : f \in FetchIds}

\* the dicts the callers hold before any fetch starts
HeapInit ==
    [c \in Cells |->
        IF c = CallerCell(1) THEN [k \in {"offset", "limit"} |-> IF k = "offset" THEN 7 ELSE 5]
        ELSE IF c = CallerCell(2) THEN [k \in {"sort"} |-> "asc"]
        ELSE EmptyDict]

\* the objects every fetch goes through: the endpoint (self), its client,
\* the client's config and session headers
SharedObjects ==
    LET cfg == APIConfig([n \in EnvNames |-> IF n = "CONGRESS_API_KEY" THEN SomeText("k1") ELSE NoText])
    IN  [MAX_LIMIT |-> MAX_LIMIT, config |-> cfg, base_url |-> cfg.base_url,
         headers |-> SessionHeaders(cfg)]

\* a variant that hands back the object it was given
deepcopy_Alias(f, src) == src

\* copy.deepcopy(params) in fetch f: the cell of the new object
deepcopy(f, src) == CopyCell(f)

\* the endpoints the concurrent fetches go to
Endpoints == {"bill", "amendment"}

Request(endpoint, q) == [endpoint |-> endpoint, query |-> q]

Answered(body) == [ok |-> TRUE, body |-> body, error |-> NoError]

Refused(e) == [ok |-> FALSE, body |-> NoBody, error |-> e]

\* the sizes of the collections a well-behaved server holds
Totals == {0, 1, 250, 251, 300, 500, 501, 510, 600, 751, 760}

\* the endpoint of the collection of total records, numbered 0..total-1
Collection(total) == "collection/" \o ToString(total)

\* a well-behaved server: for (offset o, limit L) it returns the records at
\* indices o..min(o+L, total)-1 and sets next exactly when o+L < total
WellBehaved(total, q) ==
    LET o == IF "offset" \in DOMAIN q THEN q["offset"] ELSE 0
        L == q["limit"]
        end == IF o + L < total THEN o + L ELSE total
        records == [i \in 1..(IF end > o THEN end - o ELSE 0) |-> o + i - 1]
    IN  Answered(JsonBody(<<"bills", "pagination", "request">>,
                          [k \in DataKeys |-> IF k = "bills" THEN records ELSE <<>>],
                          Pagination(IF o + L < total THEN {"count", "next"} ELSE {"count"}, total),
                          "e1"))

\* what client.get comes back with for a request: the server answers a
\* request the same way whenever it is asked.  bill has three pages of one
\* record (offsets below 250, 250, 251), amendment has a first page and
\* fails on every later one; a collection is served by the well-behaved
\* server.
Serve(endpoint, q) ==
    LET o == IF "offset" \in DOMAIN q THEN q["offset"] ELSE 0
        page == IF o < MAX_LIMIT THEN 1 ELSE o - MAX_LIMIT + 2
        records == CASE page = 1 -> <<"r1">> [] page = 2 -> <<"r2">>
                     [] page = 3 -> <<"r1">> [] OTHER -> <<>>
    IN  IF \E t \in Totals : endpoint = Collection(t)
        THEN WellBehaved(CHOOSE t \in Totals : endpoint = Collection(t), q)
        ELSE IF endpoint = "bill"
        THEN Answered(JsonBody(<<"bills", "pagination", "request">>,
                               [k \in DataKeys |-> IF k = "bills" THEN records ELSE <<>>],
                               Pagination(IF page < 3 THEN {"count", "next"} ELSE {"count"}, 3),
                               "e1"))
        ELSE IF page = 1
        THEN Answered(JsonBody(<<"amendments", "pagination">>,
                               [k \in DataKeys |-> IF k = "amendments" THEN <<"r2">> ELSE <<>>],
                               Pagination({"count", "next"}, 2), ""))
        ELSE Refused(Error("CongressAPIError", "API request failed: 500"))

\* the locals of one call of _get
FrameInit ==
    [pc |-> "Start", endpoint |-> "", cell |-> NoCell, limit |-> IntLimit(20),
     params |-> NoCell, response |-> NoBody, data_key |-> "",
     pagination |-> EmptyPagination, total_count |-> 0, all_results |-> <<>>,
     offset |-> 0, requests |-> <<>>, inflight |-> FALSE,
     result |-> NoBody, error |-> NoError]

\* how a call of _get ends: the requests it issued, what it returned or raised
Outcome(reqs, r, e) == [requests |-> reqs, result |-> r, error |-> e]

\* lines 74-95 run to the end, nothing else running
RECURSIVE AloneLoop(_, _, _, _, _, _, _, _)
AloneLoop(endpoint, p, key, results, count, off, last, reqs) ==
    IF "next" \notin GetPagination(last).has
    THEN Outcome(reqs, FinalResponse(key, results, count, last), NoError)
    ELSE LET q == NextQuery(p, off)
             a == Serve(endpoint, q)
             sent == Append(reqs, Request(endpoint, q))
         IN  IF ~a.ok THEN Outcome(sent, NoBody, a.error)
             ELSE IF a.body.kind # "json"
             THEN Outcome(sent, NoBody,
                          Error("TypeError", "byte indices must be integers or slices, not str"))
             ELSE IF ~HasKey(a.body, key) THEN Outcome(sent, NoBody, Error("KeyError", key))
             ELSE AloneLoop(endpoint, p, key, Extend(results, Data(a.body, key)), count,
                            AdvanceOffset(off, Data(a.body, key)), a.body, sent)

\* _get(endpoint, params, limit) run from start to end, nothing else running
AloneRun(endpoint, p, l) ==
    IF l.isInt /\ ~ValidIntLimit(l) THEN Outcome(<<>>, NoBody, InvalidIntLimit)
    ELSE IF ~l.isInt /\ l.s # "all" THEN Outcome(<<>>, NoBody, InvalidLimit)
    ELSE LET q == FirstQuery(p, IF l.isInt THEN l.n ELSE MAX_LIMIT)
             a == Serve(endpoint, q)
             sent == <<Request(endpoint, q)>>
             key == FirstDataKey(a.body.keys)
         IN  IF ~a.ok THEN Outcome(sent, NoBody, a.error)
             ELSE IF l.isInt THEN Outcome(sent, a.body, NoError)
             ELSE IF a.body.kind # "json"
             THEN Outcome(sent, NoBody,
                          Error("AttributeError", "'bytes' object has no attribute 'keys'"))
             ELSE IF MissingDataKey(key) THEN Outcome(sent, NoBody, NoDataKey)
             ELSE IF "next" \notin GetPagination(a.body).has
             THEN Outcome(sent, SinglePage(a.body, key, TotalCount(GetPagination(a.body))), NoError)
             ELSE AloneLoop(endpoint, p, key, Data(a.body, key),
                            TotalCount(GetPagination(a.body)),
                            InitialOffset(Data(a.body, key)), a.body, sent)

(***************************************************************************)
(* State                                                                   *)
(***************************************************************************)
VARIABLES
    pc,             \* where the call of _get stands
    caller_params,  \* the mapping object the caller passed (or None)
    limit,          \* the limit argument
    params,         \* local: params or {}
    current_params, \* local: the query of the request being built
    response,       \* local: the body of the latest reply
    data_key,       \* local
    pagination,     \* local
    total_count,    \* local
    all_results,    \* local
    offset,         \* local
    result,         \* what _get returned (NoBody: nothing)
    error,          \* what _get raised (NoError: nothing)
    requests,       \* the queries handed to client.get, in order
    inflight,       \* a call of client.get has not returned yet
    firstPage,      \* history: the body of the first reply
    served,         \* history: the data of every JSON body received, in order
    raised          \* history: the error client.get raised

\* the state of one call of _get
fetchVars == <<pc, caller_params, limit, params, current_params, response, data_key,
               pagination, total_count, all_results, offset, result, error,
               requests, inflight, firstPage, served, raised>>

VARIABLES
    http            \* one call of CongressClient.get, seen from inside

httpVars == <<http>>

VARIABLES
    config,         \* load_config: the environment it read, what it returned or raised
    client,         \* the CongressClient built from the config
    call            \* one call of an endpoint method, up to its call of _get

endpointVars == <<config, client, call>>

VARIABLES
    frame,          \* concurrent fetches: the locals of each call of _get
    heap,           \* concurrent fetches: the dict objects, by cell
    objects         \* concurrent fetches: the endpoint, client and config they share

concurrentVars == <<frame, heap, objects>>

VARIABLES
    stitched        \* one 'all' fetch against a well-behaved server, start to end

vars == <<fetchVars, httpVars, endpointVars, concurrentVars, stitched>>

\* what a call of _get leaves alone
outsideFetch == <<httpVars, endpointVars, concurrentVars, stitched>>

\* what a call of CongressClient.get leaves alone
outsideHttp == <<fetchVars, endpointVars, concurrentVars, stitched>>

\* what configuration, construction and the endpoint methods leave alone
outsideEndpoint == <<fetchVars, httpVars, concurrentVars, stitched>>

\* what the concurrent fetches leave alone
outsideConcurrent == <<fetchVars, httpVars, endpointVars, stitched>>

\* what the fetch against the well-behaved server leaves alone
outsideStitched == <<fetchVars, httpVars, endpointVars, concurrentVars>>

locals == <<response, data_key, pagination, total_count, all_results, offset>>

history == <<firstPage, served, raised>>

FetchInit ==
    /\ pc = "Start"
    /\ caller_params = NoneParams
    /\ limit = IntLimit(20)
    /\ params = EmptyDict
    /\ current_params = EmptyDict
    /\ response = NoBody
    /\ data_key = ""
    /\ pagination = EmptyPagination
    /\ total_count = 0
    /\ all_results = <<>>
    /\ offset = 0
    /\ result = NoBody
    /\ error = NoError
    /\ requests = <<>>
    /\ inflight = FALSE
    /\ firstPage = NoBody
    /\ served = <<>>
    /\ raised = NoError

HttpInit == http = HttpStart

EndpointInit ==
    /\ config = [pc |-> "Unloaded", env |-> NoEnv, value |-> NoConfig, error |-> NoError]
    /\ client = NoClient
    /\ call = NoCall

ConcurrentInit ==
    /\ frame = [f \in FetchIds |-> FrameInit]
    /\ heap = HeapInit
    /\ objects = SharedObjects

StitchedInit ==
    stitched = [pc |-> "Start", params |-> EmptyDict, total |-> 0,
                outcome |-> Outcome(<<>>, NoBody, NoError)]

Init == FetchInit /\ HttpInit /\ EndpointInit /\ ConcurrentInit /\ StitchedInit

\* self.client.get(endpoint, params=current_params): the call is issued
Send(q) ==
    /\ current_params' = q
    /\ requests' = Append(requests, q)
    /\ inflight' = TRUE

\* raise
Raise(e) ==
    /\ pc' = "Failed"
    /\ error' = e
    /\ result' = NoBody

\* return
Return(r) ==
    /\ pc' = "Done"
    /\ result' = r
    /\ error' = NoError

(***************************************************************************)
(* _get is called: lines 35-55, up to the first client.get                 *)
(***************************************************************************)
\* limit is an int outside 1..MAX_LIMIT
CallInvalidInt(p, l) ==
    /\ pc = "Start"
    /\ l.isInt /\ ~ValidIntLimit(l)
    /\ caller_params' = p
    /\ limit' = l
    /\ params' = ParamsOrEmpty(p)
    /\ current_params' = DictDel(ParamsOrEmpty(p), "limit")
    /\ Raise(InvalidIntLimit)
    /\ UNCHANGED <<locals, requests, inflight, history>>
    /\ UNCHANGED outsideFetch

\* limit is not an int and is not 'all'
CallInvalid(p, l) ==
    /\ pc = "Start"
    /\ ~l.isInt /\ l.s # "all"
    /\ caller_params' = p
    /\ limit' = l
    /\ params' = ParamsOrEmpty(p)
    /\ current_params' = DictDel(ParamsOrEmpty(p), "limit")
    /\ Raise(InvalidLimit)
    /\ UNCHANGED <<locals, requests, inflight, history>>
    /\ UNCHANGED outsideFetch

\* limit is an int in 1..MAX_LIMIT: the one request of the bounded path
CallBounded(p, l) ==
    /\ pc = "Start"
    /\ ValidIntLimit(l)
    /\ caller_params' = p
    /\ limit' = l
    /\ params' = ParamsOrEmpty(p)
    /\ Send(FirstQuery(ParamsOrEmpty(p), l.n))
    /\ pc' = "Bounded"
    /\ UNCHANGED <<locals, result, error, history>>
    /\ UNCHANGED outsideFetch

\* limit is 'all': the first request
CallAll(p, l) ==
    /\ pc = "Start"
    /\ ~l.isInt /\ l.s = "all"
    /\ caller_params' = p
    /\ limit' = l
    /\ params' = ParamsOrEmpty(p)
    /\ Send(FirstQuery(ParamsOrEmpty(p), MAX_LIMIT))
    /\ pc' = "Idle"
    /\ UNCHANGED <<locals, result, error, history>>
    /\ UNCHANGED outsideFetch

(***************************************************************************)
(* Bounded path: line 46                                                   *)
(***************************************************************************)
BoundedReply(body) ==
    /\ pc = "Bounded" /\ inflight
    /\ inflight' = FALSE
    /\ firstPage' = body
    /\ Return(body)
    /\ UNCHANGED <<caller_params, limit, params, current_params, locals,
                   requests, served, raised>>
    /\ UNCHANGED outsideFetch

BoundedFail(e) ==
    /\ pc = "Bounded" /\ inflight
    /\ inflight' = FALSE
    /\ raised' = e
    /\ Raise(e)
    /\ UNCHANGED <<caller_params, limit, params, current_params, locals,
                   requests, firstPage, served>>
    /\ UNCHANGED outsideFetch

(***************************************************************************)
(* 'all' path, first page: lines 55-71                                     *)
(***************************************************************************)
\* line 55: client.get returns
FirstReply(body) ==
    /\ pc = "Idle" /\ inflight
    /\ inflight' = FALSE
    /\ response' = body
    /\ firstPage' = body
    /\ served' = IF body.kind = "json" THEN Append(served, body.data) ELSE served
    /\ pc' = "FirstPageFetched"
    /\ UNCHANGED <<caller_params, limit, params, current_params, data_key,
                   pagination, total_count, all_results, offset, result, error,
                   requests, raised>>
    /\ UNCHANGED outsideFetch

\* line 55: client.get raises
FirstFail(e) ==
    /\ pc = "Idle" /\ inflight
    /\ inflight' = FALSE
    /\ raised' = e
    /\ Raise(e)
    /\ UNCHANGED <<caller_params, limit, params, current_params, locals,
                   requests, firstPage, served>>
    /\ UNCHANGED outsideFetch

\* lines 57-71
InspectFirst ==
    /\ pc = "FirstPageFetched"
    /\ IF response.kind # "json"
       THEN \* bytes has no keys()
            /\ Raise(Error("AttributeError", "'bytes' object has no attribute 'keys'"))
            /\ UNCHANGED <<data_key, pagination, total_count, all_results, offset>>
       ELSE IF MissingDataKey(FirstDataKey(response.keys))
       THEN /\ data_key' = ""
            /\ Raise(NoDataKey)
            /\ UNCHANGED <<pagination, total_count, all_results, offset>>
       ELSE /\ data_key' = FirstDataKey(response.keys)
            /\ pagination' = GetPagination(response)
            /\ total_count' = TotalCount(GetPagination(response))
            /\ IF "next" \notin GetPagination(response).has
               THEN /\ Return(SinglePage(response, FirstDataKey(response.keys),
                                          TotalCount(GetPagination(response))))
                    /\ UNCHANGED <<all_results, offset>>
               ELSE /\ all_results' = Data(response, FirstDataKey(response.keys))
                    /\ offset' = InitialOffset(Data(response, FirstDataKey(response.keys)))
                    /\ pc' = "Paging"
                    /\ UNCHANGED <<result, error>>
    /\ UNCHANGED <<caller_params, limit, params, current_params, response,
                   requests, inflight, history>>
    /\ UNCHANGED outsideFetch

(***************************************************************************)
(* 'all' path, the loop: lines 74-86                                       *)
(***************************************************************************)
\* a variant that issues the next request without waiting for the reply
LoopRequest_Pipelined ==
    /\ pc = "Paging"
    /\ "next" \in pagination.has
    /\ Len(requests) < MaxCalls
    /\ Send(NextQuery(params, offset))
    /\ UNCHANGED <<pc, caller_params, limit, params, locals, result, error,
                   history>>
    /\ UNCHANGED outsideFetch

\* a variant whose loop stops asking after two requests
LoopRequest_Ceiling ==
    /\ pc = "Paging" /\ ~inflight
    /\ "next" \in pagination.has
    /\ Len(requests) < 2
    /\ Len(requests) < MaxCalls
    /\ Send(NextQuery(params, offset))
    /\ UNCHANGED <<pc, caller_params, limit, params, locals, result, error,
                   history>>
    /\ UNCHANGED outsideFetch

\* a variant whose loop goes on whether or not the latest page has next
LoopRequest_IgnoresNext ==
    /\ pc = "Paging" /\ ~inflight
    /\ Len(requests) < MaxCalls
    /\ Send(NextQuery(params, offset))
    /\ UNCHANGED <<pc, caller_params, limit, params, locals, result, error,
                   history>>
    /\ UNCHANGED outsideFetch

\* lines 74-81: the loop condition holds and the next request is issued
LoopRequest ==
    /\ pc = "Paging" /\ ~inflight
    /\ "next" \in pagination.has
    /\ Len(requests) < MaxCalls
    /\ Send(NextQuery(params, offset))
    /\ UNCHANGED <<pc, caller_params, limit, params, locals, result, error,
                   history>>
    /\ UNCHANGED outsideFetch

\* a variant that reads every page under that page's own data key
LoopReply_OwnKey(body) ==
    /\ pc = "Paging" /\ inflight
    /\ inflight' = FALSE
    /\ response' = body
    /\ served' = IF body.kind = "json" THEN Append(served, body.data) ELSE served
    /\ IF body.kind # "json"
       THEN /\ Raise(Error("TypeError", "byte indices must be integers or slices, not str"))
            /\ UNCHANGED <<pagination, all_results, offset>>
       ELSE IF MissingDataKey(FirstDataKey(body.keys))
       THEN /\ Raise(NoDataKey)
            /\ UNCHANGED <<pagination, all_results, offset>>
       ELSE /\ pagination' = GetPagination(body)
            /\ all_results' = Extend(all_results, Data(body, FirstDataKey(body.keys)))
            /\ offset' = AdvanceOffset(offset, Data(body, FirstDataKey(body.keys)))
            /\ UNCHANGED <<pc, result, error>>
    /\ UNCHANGED <<caller_params, limit, params, current_params, data_key,
                   total_count, requests, firstPage, raised>>
    /\ UNCHANGED outsideFetch

\* lines 81-86: client.get returns
LoopReply(body) ==
    /\ pc = "Paging" /\ inflight
    /\ inflight' = FALSE
    /\ response' = body
    /\ served' = IF body.kind = "json" THEN Append(served, body.data) ELSE served
    /\ IF body.kind # "json"
       THEN \* bytes indexed by a str
            /\ Raise(Error("TypeError", "byte indices must be integers or slices, not str"))
            /\ UNCHANGED <<pagination, all_results, offset>>
       ELSE IF ~HasKey(body, data_key)
       THEN /\ Raise(Error("KeyError", data_key))
            /\ UNCHANGED <<pagination, all_results, offset>>
       ELSE /\ pagination' = GetPagination(body)
            /\ all_results' = Extend(all_results, Data(body, data_key))
            /\ offset' = AdvanceOffset(offset, Data(body, data_key))
            /\ UNCHANGED <<pc, result, error>>
    /\ UNCHANGED <<caller_params, limit, params, current_params, data_key,
                   total_count, requests, firstPage, raised>>
    /\ UNCHANGED outsideFetch

\* a variant that stops the loop on a failure and returns what it has
LoopFail_Partial(e) ==
    /\ pc = "Paging" /\ inflight
    /\ inflight' = FALSE
    /\ raised' = e
    /\ Return(FinalResponse(data_key, all_results, total_count, response))
    /\ UNCHANGED <<caller_params, limit, params, current_params, locals,
                   requests, firstPage, served>>
    /\ UNCHANGED outsideFetch

\* line 81: client.get raises
LoopFail(e) ==
    /\ pc = "Paging" /\ inflight
    /\ inflight' = FALSE
    /\ raised' = e
    /\ Raise(e)
    /\ UNCHANGED <<caller_params, limit, params, current_params, locals,
                   requests, firstPage, served>>
    /\ UNCHANGED outsideFetch

\* a variant that leaves the loop whether or not the latest page has next
LoopExit_IgnoresNext ==
    /\ pc = "Paging" /\ ~inflight
    /\ Return(FinalResponse(data_key, all_results, total_count, response))
    /\ UNCHANGED <<caller_params, limit, params, current_params, locals,
                   requests, inflight, history>>
    /\ UNCHANGED outsideFetch

\* lines 74, 88-95: the loop condition fails, the final response is built
LoopExit ==
    /\ pc = "Paging" /\ ~inflight
    /\ "next" \notin pagination.has
    /\ Return(FinalResponse(data_key, all_results, total_count, response))
    /\ UNCHANGED <<caller_params, limit, params, current_params, locals,
                   requests, inflight, history>>
    /\ UNCHANGED outsideFetch

Next ==
    \/ \E p \in ParamInputs, l \in LimitInputs : CallInvalidInt(p, l)
    \/ \E p \in ParamInputs, l \in LimitInputs : CallInvalid(p, l)
    \/ \E p \in ParamInputs, l \in LimitInputs : CallBounded(p, l)
    \/ \E p \in ParamInputs, l \in LimitInputs : CallAll(p, l)
    \/ \E body \in Bodies : BoundedReply(body)
    \/ \E e \in TransportErrors : BoundedFail(e)
    \/ \E body \in Bodies : FirstReply(body)
    \/ \E e \in TransportErrors : FirstFail(e)
    \/ InspectFirst
    \/ LoopRequest
    \/ \E body \in Bodies : LoopReply(body)
    \/ \E e \in TransportErrors : LoopFail(e)
    \/ LoopExit

Spec == Init /\ [][Next]_vars

\* a call of client.get comes back: it returns a body or it raises (the
\* session applies config.timeout to every request)
TransportReturns ==
    \/ \E body \in Bodies : BoundedReply(body) \/ FirstReply(body) \/ LoopReply(body)
    \/ \E e \in TransportErrors : BoundedFail(e) \/ FirstFail(e) \/ LoopFail(e)

\* the interpreter runs the code of _get as long as there is code to run
FairSpec ==
    /\ Spec
    /\ WF_vars(InspectFirst)
    /\ WF_vars(LoopRequest)
    /\ WF_vars(LoopExit)
    /\ WF_vars(TransportReturns)

(***************************************************************************)
(* Vocabulary of the properties                                            *)
(***************************************************************************)
\* the call is a fetch with limit = 'all'
AllFetch == pc # "Start" /\ ~limit.isInt /\ limit.s = "all"

\* the call is a fetch with an int limit in [1, 250]
BoundedFetch == pc # "Start" /\ limit.isInt /\ limit.n >= 1 /\ limit.n <= 250

\* the call has returned the assembled response of two pages or more
MultiPageDone == AllFetch /\ pc = "Done" /\ Len(requests) >= 2

\* the keys of a body that are neither 'pagination' nor 'request'
DataKeysOf(body) ==
    { body.keys[i] : i \in 1..Len(body.keys) } \ {"pagination", "request"}

\* the key under which the records of the first page arrived
FirstPageKey == firstPage.keys[1]

\* the records of pages from..to under key k, in arrival order
RECURSIVE PageRecords(_, _, _)
PageRecords(k, from, to) ==
    IF from > to THEN <<>>
    ELSE served[from][k] \o PageRecords(k, from + 1, to)

\* the count the first page reports (0: it reports none)
FirstPageCount ==
    IF HasKey(firstPage, "pagination") /\ "count" \in firstPage.pagination.has
    THEN firstPage.pagination.count
    ELSE 0

(***************************************************************************)
(* C1: when an 'all' fetch returns after N >= 1 pages, the records under   *)
(* the data key of its response are the records of pages 1..N, page after  *)
(* page in arrival order, none dropped, duplicated or reordered.           *)
(***************************************************************************)
C1_Concatenation ==
    (AllFetch /\ pc = "Done") =>
        /\ Len(served) = Len(requests)
        /\ Data(result, FirstPageKey) = PageRecords(FirstPageKey, 1, Len(served))

C1_Witness ==
    /\ MultiPageDone
    /\ Len(requests) = 3
    /\ served[1]["bills"] = <<"r1">>
    /\ served[2]["bills"] = <<"r2", "r1">>
    /\ served[3]["bills"] = <<"r1">>
    /\ Data(result, "bills") = <<"r1", "r2", "r1", "r1">>

(***************************************************************************)
(* C2: the pagination.count of the response of a multi-page 'all' fetch is *)
(* the count of the first page (0 when the first page reports none),       *)
(* whatever later pages report and however many records were gathered.     *)
(***************************************************************************)
C2_CountOfFirstPage ==
    MultiPageDone =>
        /\ "count" \in result.pagination.has
        /\ result.pagination.count = FirstPageCount

C2_Witness ==
    /\ MultiPageDone
    /\ Len(requests) = 3
    /\ FirstPageCount = 7
    /\ response.pagination = Pagination({"count"}, 3)
    /\ Len(all_results) = 2
    /\ result.pagination.count = 7

(***************************************************************************)
(* C3: with an int limit in [1, 250] exactly one request is issued, its    *)
(* query has limit set to that int, the body of the reply is returned as   *)
(* it is, and no request follows even when the body carries next.          *)
(***************************************************************************)
C3_BoundedOneRequest ==
    BoundedFetch =>
        /\ Len(requests) = 1
        /\ "limit" \in DOMAIN requests[1]
        /\ requests[1]["limit"] = limit.n
        /\ (pc = "Done" => result = firstPage)
        /\ (pc = "Failed" => error = raised /\ raised \in TransportErrors)

C3_Witness ==
    /\ BoundedFetch
    /\ pc = "Done"
    /\ limit.n = 20
    /\ "limit" \in DOMAIN caller_params.d
    /\ "next" \in result.pagination.has
    /\ HasKey(result, "pagination")

(***************************************************************************)
(* C4: an int limit outside [1, 250], or a limit that is neither an int    *)
(* nor exactly 'all', makes _get raise the ValueError of the limit check   *)
(* with no request issued.                                                 *)
(***************************************************************************)
C4_InvalidLimitRejected ==
    (pc # "Start" /\ ~BoundedFetch /\ ~AllFetch) =>
        /\ pc = "Failed"
        /\ error.type = "ValueError"
        /\ error \in {InvalidIntLimit, InvalidLimit}
        /\ result = NoBody
        /\ requests = <<>>
        /\ ~inflight

C4_Witness ==
    /\ pc = "Failed"
    /\ limit = IntLimit(0)
    /\ error = InvalidIntLimit
    /\ requests = <<>>

(***************************************************************************)
(* C5: in an 'all' fetch whose first page has a data key and no next (or   *)
(* no pagination object), exactly one request is issued and the first page *)
(* itself is returned, its pagination and request included.                *)
(***************************************************************************)
C5_SinglePageShortcut ==
    (/\ AllFetch
     /\ pc \notin {"Idle", "FirstPageFetched"}
     /\ firstPage.kind = "json"
     /\ DataKeysOf(firstPage) # {}
     /\ ~(HasKey(firstPage, "pagination") /\ "next" \in firstPage.pagination.has))
    =>  /\ pc = "Done"
        /\ result = firstPage
        /\ Len(requests) = 1

C5_Witness ==
    /\ AllFetch
    /\ pc = "Done"
    /\ Len(requests) = 1
    /\ result.keys = <<"bills", "pagination", "request">>
    /\ result.pagination = Pagination({"count"}, 3)
    /\ result.request = "e1"

\* the offset a query asks for (the API starts at 0 when none is sent)
OffsetOf(q) == IF "offset" \in DOMAIN q THEN q["offset"] ELSE 0

(***************************************************************************)
(* C6: in an 'all' fetch, the offset of request n+1 is the offset of       *)
(* request n plus the number of records received in page n; the offset of  *)
(* the second request is the number of records of the first page.          *)
(***************************************************************************)
C6_OffsetAdvance ==
    AllFetch =>
        \A n \in 1..(Len(requests) - 1) :
            /\ "offset" \in DOMAIN requests[n + 1]
            /\ requests[n + 1]["offset"] =
                   OffsetOf(requests[n]) + Len(served[n][data_key])

\* what the code does: the second request asks for offset MAX_LIMIT, and
\* from then on the offset advances by the records received
C6_OffsetAsCoded ==
    AllFetch =>
        \A n \in 1..(Len(requests) - 1) :
            /\ "offset" \in DOMAIN requests[n + 1]
            /\ requests[n + 1]["offset"] =
                   IF n = 1 THEN 250
                   ELSE requests[n]["offset"] + Len(served[n][data_key])

(***************************************************************************)
(* C7: when a client.get of an 'all' fetch raises, _get raises that same   *)
(* error, returns nothing (the records gathered so far are not handed to   *)
(* the caller), and issues no request after the failure.                   *)
(***************************************************************************)
C7_FailurePropagates ==
    /\ [](raised # NoError =>
            /\ pc = "Failed"
            /\ error = raised
            /\ result = NoBody
            /\ ~inflight)
    /\ [][raised # NoError => requests' = requests]_vars

C7_Witness ==
    /\ AllFetch
    /\ pc = "Failed"
    /\ raised \in TransportErrors
    /\ Len(requests) = 3
    /\ all_results = <<"r1", "r2", "r1">>
    /\ result = NoBody

(***************************************************************************)
(* C8: in an 'all' fetch, a first page whose keys are all among            *)
(* 'pagination' and 'request' makes _get raise the ValueError of the data  *)
(* key after exactly one request, with or without next in its pagination.  *)
(***************************************************************************)
C8_NoDataKeyRejected ==
    (/\ AllFetch
     /\ pc # "Idle"
     /\ firstPage.kind = "json"
     /\ DataKeysOf(firstPage) = {})
    =>  /\ Len(requests) = 1
        /\ ~inflight
        /\ pc \in {"FirstPageFetched", "Failed"}
        /\ (pc = "Failed" => error = NoDataKey /\ result = NoBody)

C8_Witness ==
    /\ AllFetch
    /\ pc = "Failed"
    /\ error = NoDataKey
    /\ firstPage.keys = <<"pagination", "request">>
    /\ "next" \in firstPage.pagination.has
    /\ Len(requests) = 1

(***************************************************************************)
(* C9: every follow-up query of an 'all' fetch is the caller's parameters  *)
(* with 'offset' and 'limit' overwritten: the other keys and their values  *)
(* are the caller's, limit is MAX_LIMIT, and the offset depends on the     *)
(* replies only through the number of records of the pages received.       *)
(***************************************************************************)
RECURSIVE RecordsReceived(_, _)
RecordsReceived(from, to) ==
    IF from > to THEN 0
    ELSE Len(served[from][FirstPageKey]) + RecordsReceived(from + 1, to)

C9_FollowUpQuery ==
    AllFetch =>
        \A n \in 2..Len(requests) :
            /\ DOMAIN requests[n] = (DOMAIN caller_params.d) \cup {"offset", "limit"}
            /\ \A k \in (DOMAIN caller_params.d) \ {"offset", "limit"} :
                   requests[n][k] = caller_params.d[k]
            /\ requests[n]["limit"] = 250
            /\ requests[n]["offset"] = 250 + RecordsReceived(2, n - 1)

C9_Witness ==
    /\ AllFetch
    /\ Len(requests) = 3
    /\ caller_params.d = [k \in {"sort", "offset"} |-> IF k = "offset" THEN 300 ELSE "asc"]
    /\ served[2]["bills"] = <<"r2", "r1">>
    /\ firstPage.request = "e1"
    /\ requests[3] = [k \in {"sort", "offset", "limit"} |->
                         IF k = "sort" THEN "asc" ELSE IF k = "offset" THEN 252 ELSE 250]

(***************************************************************************)
(* C10: the response of a multi-page 'all' fetch has exactly three keys:   *)
(* the data key of the first page with the records gathered, 'pagination'  *)
(* holding the count and nothing else, and 'request' holding the request   *)
(* echo of the last page ({} when that page has none).                     *)
(***************************************************************************)
C10_FinalShape ==
    MultiPageDone =>
        /\ Len(result.keys) = 3
        /\ { result.keys[i] : i \in 1..3 } = {FirstPageKey, "pagination", "request"}
        /\ result.kind = "json"
        /\ Data(result, FirstPageKey) = all_results
        /\ result.pagination = Pagination({"count"}, total_count)
        /\ result.request =
               IF HasKey(response, "request") THEN response.request ELSE "{}"

C10_Witness ==
    /\ MultiPageDone
    /\ firstPage.keys = <<"amendments", "bills", "pagination", "request">>
    /\ ~HasKey(response, "request")
    /\ result.keys = <<"amendments", "pagination", "request">>
    /\ result.request = "{}"
    /\ result.pagination = Pagination({"count"}, 7)

(***************************************************************************)
(* C11: every page after the first is read under the data key of the first *)
(* page: when such a page has that key its records (and no others) are     *)
(* appended, and when it lacks the key the fetch raises and returns        *)
(* nothing.                                                                *)
(***************************************************************************)
\* a reply to a follow-up request has been received and looked at
LaterPageReceived ==
    /\ AllFetch
    /\ Len(requests) >= 2
    /\ ~inflight
    /\ raised = NoError
    /\ response.kind = "json"

C11_DataKeyConstant ==
    LaterPageReceived =>
        IF FirstPageKey \in DataKeysOf(response)
        THEN /\ pc \in {"Paging", "Done"}
             /\ all_results = PageRecords(FirstPageKey, 1, Len(served))
        ELSE /\ pc = "Failed"
             /\ error = Error("KeyError", FirstPageKey)
             /\ result = NoBody
             /\ all_results = PageRecords(FirstPageKey, 1, Len(served) - 1)

C11_Witness ==
    /\ LaterPageReceived
    /\ Len(requests) = 3
    /\ FirstPageKey = "amendments"
    /\ response.keys = <<"bills">>
    /\ response.data["bills"] = <<"r2", "r1">>
    /\ pc = "Failed"
    /\ all_results = <<"r2", "r2">>

(***************************************************************************)
(* C12: an 'all' fetch moves only Idle -> FirstPageFetched on the first    *)
(* reply, FirstPageFetched -> Done when the page has no next,              *)
(* FirstPageFetched -> Paging when it has, Paging -> Paging on a reply,    *)
(* Paging -> Done when the latest page lacks next, and to Failed on a      *)
(* transport failure only; nothing moves out of Done or Failed.            *)
(***************************************************************************)
\* client.get raises in this step
TransportFails == raised = NoError /\ raised' # NoError

\* the first page has next
FirstHasNext ==
    HasKey(firstPage, "pagination") /\ "next" \in firstPage.pagination.has

\* the body in response has next
LatestHasNext(body) ==
    HasKey(body, "pagination") /\ "next" \in body.pagination.has

\* the steps inside Paging: a follow-up request goes out after a page with
\* next, or a reply comes in
PagingStep ==
    /\ pc = "Paging" /\ pc' = "Paging"
    /\ \/ /\ ~inflight /\ inflight'
          /\ Len(requests') = Len(requests) + 1
          /\ LatestHasNext(response)
       \/ /\ inflight /\ ~inflight'
          /\ requests' = requests
          /\ raised' = NoError

C12_ListedTransitionsOnly ==
    [][AllFetch' =>
        \/ pc = "Start" /\ pc' = "Idle"
        \/ pc = "Idle" /\ pc' = "FirstPageFetched" /\ raised' = NoError
        \/ pc = "FirstPageFetched" /\ pc' = "Done" /\ ~FirstHasNext
        \/ pc = "FirstPageFetched" /\ pc' = "Paging" /\ FirstHasNext
        \/ PagingStep
        \/ pc = "Paging" /\ pc' = "Done" /\ ~LatestHasNext(response)
                         /\ requests' = requests
        \/ pc \in {"Idle", "FirstPageFetched", "Paging"} /\ pc' = "Failed"
                         /\ TransportFails /\ requests' = requests
      ]_vars

\* the first page cannot be paginated: not a JSON object, or no data key
FirstPageUnusable == firstPage.kind # "json" \/ DataKeysOf(firstPage) = {}

\* a later page cannot be read: not a JSON object, or without the data key
PageUnusable(body) == body.kind # "json" \/ FirstPageKey \notin DataKeysOf(body)

C12_TransitionsWithShapeFailures ==
    [][AllFetch' =>
        \/ pc = "Start" /\ pc' = "Idle"
        \/ pc = "Idle" /\ pc' = "FirstPageFetched" /\ raised' = NoError
        \/ pc = "FirstPageFetched" /\ pc' = "Done"
                         /\ ~FirstPageUnusable /\ ~FirstHasNext
        \/ pc = "FirstPageFetched" /\ pc' = "Paging"
                         /\ ~FirstPageUnusable /\ FirstHasNext
        \/ pc = "FirstPageFetched" /\ pc' = "Failed"
                         /\ FirstPageUnusable /\ raised' = NoError
                         /\ requests' = requests
        \/ PagingStep /\ (inflight => ~PageUnusable(response'))
        \/ pc = "Paging" /\ pc' = "Failed" /\ inflight
                         /\ PageUnusable(response') /\ raised' = NoError
                         /\ requests' = requests
        \/ pc = "Paging" /\ pc' = "Done" /\ ~LatestHasNext(response)
                         /\ requests' = requests
        \/ pc \in {"Idle", "FirstPageFetched", "Paging"} /\ pc' = "Failed"
                         /\ TransportFails /\ requests' = requests
      ]_vars

C12_Witness ==
    /\ AllFetch
    /\ pc = "Failed"
    /\ raised = NoError
    /\ error.type = "TypeError"
    /\ Len(requests) = 2
    /\ response = RawBody

(***************************************************************************)
(* C13: an 'all' fetch ends (returns or raises) once a page without next   *)
(* has been received or a transport call has failed, whatever the number   *)
(* of records of the pages (fewer than asked for, or none); no request     *)
(* follows the first page without next, and it returns at no other page.   *)
(***************************************************************************)
\* a page without next has been received
PageWithoutNext == AllFetch /\ response.kind = "json" /\ ~LatestHasNext(response)

C13_Terminates ==
    /\ (AllFetch /\ (raised # NoError \/ PageWithoutNext))
           ~> (pc \in {"Done", "Failed"})
    /\ [][PageWithoutNext => requests' = requests]_vars
    /\ []((AllFetch /\ pc = "Done") => PageWithoutNext)

C13_Witness ==
    /\ AllFetch
    /\ pc = "Done"
    /\ Len(requests) = 3
    /\ served[1]["bills"] = <<"r1">>
    /\ served[2]["bills"] = <<>>
    /\ served[3]["bills"] = <<>>
    /\ result.data["bills"] = <<"r1">>

(***************************************************************************)
(* CongressClient.get                                                      *)
(***************************************************************************)
\* get(endpoint, params): one session.request; the reply's body is returned,
\* or the RequestException becomes a CongressAPIError
ClientGet(p, out) ==
    /\ http.pc = "Start"
    /\ http' = [pc |-> IF RequestFailed(out) THEN "Raised" ELSE "Returned",
                attempts |-> http.attempts + 1,
                sent |-> ParamsOrEmpty(p),
                out |-> out,
                returned |-> IF RequestFailed(out) THEN NothingReturned ELSE Returned(out),
                exc |-> IF RequestFailed(out) THEN CongressAPIError(out) ELSE NoException]
    /\ UNCHANGED outsideHttp

ClientNext == \E p \in ParamInputs, out \in HttpOutcomes : ClientGet(p, out)

ClientSpec == Init /\ [][ClientNext]_vars

\* the request got a reply with this status
Replied == http.pc # "Start" /\ http.out.kind = "Response"

\* the request got no reply at all
Unanswered == http.pc # "Start" /\ http.out.kind \in {"ConnectionError", "Timeout"}

\* the call raised a CongressAPIError built from the failure, and returned nothing
MappedToError ==
    /\ http.pc = "Raised"
    /\ http.exc.type = "CongressAPIError"
    /\ http.exc.message # ""
    /\ http.exc.status_code = (IF Replied THEN SomeStatus(http.out.status) ELSE NoStatus)
    /\ http.exc.response = (IF Replied THEN SomeText(http.out.text) ELSE NoText)
    /\ http.returned = NothingReturned

LoadConfig(env) ==
    /\ config.pc = "Unloaded"
    /\ config' = IF KeyMissing(env)
                 THEN [pc |-> "Failed", env |-> env, value |-> NoConfig, error |-> MissingKey]
                 ELSE [pc |-> "Loaded", env |-> env, value |-> APIConfig(env), error |-> NoError]
    /\ UNCHANGED <<client, call>>
    /\ UNCHANGED outsideEndpoint

\* CongressClient(config), with the config load_config returned
NewClient ==
    /\ config.pc = "Loaded"
    /\ ~client.built
    /\ client' = [built |-> TRUE, config |-> config.value,
                  headers |-> SessionHeaders(config.value),
                  base_url |-> config.value.base_url]
    /\ UNCHANGED <<config, call>>
    /\ UNCHANGED outsideEndpoint

\* a method of client.bill or client.amendment can be called
CanInvoke == client.built /\ call.pc = "Start"

Args(type, number, congress) == [type |-> type, number |-> number, congress |-> congress]

\* the sort orders and the current_member flags callers pass
SortInputs == {NoneV, StrV("updateDate+desc")}

CurrentMemberInputs == {NoneV, StrV("True"), StrV("False")}

\* the limits callers pass to the list methods
ListLimits == {IntLimit(20), StrLimit("all")}

\* BillEndpoint.list_all(offset, from_date, to_date, sort, limit)
bill_list_all(sort, l) ==
    /\ CanInvoke
    /\ call' = Enters("bill.list_all", NoArgs, <<"bill">>,
                      DictSet(WithDates(FormatOffset), "sort", sort), l)
    /\ UNCHANGED <<config, client>>
    /\ UNCHANGED outsideEndpoint

\* MemberEndpoint.list_members(offset, limit, from_date, to_date, current_member)
member_list_members(current_member, l) ==
    /\ CanInvoke
    /\ call' = Enters("member.list_members", NoArgs, <<"member">>,
                      DictSet(WithDates(FormatOffset), "currentMember",
                              IF current_member = NoneV THEN NoneV
                              ELSE StrV(IF current_member.s = "True" THEN "true" ELSE "false")),
                      l)
    /\ UNCHANGED <<config, client>>
    /\ UNCHANGED outsideEndpoint

\* BillEndpoint.list_by_type(bill_type, congress)
bill_list_by_type(bill_type, c) ==
    LET args == Args(bill_type, AbsentV, c)
        e == validate_bill_type(bill_type)
        congress == OrDefault(c, client.config.default_congress)
    IN  /\ CanInvoke
        /\ call' = (IF e # NoError THEN Raises("bill.list_by_type", args, e)
                ELSE Enters("bill.list_by_type", args,
                            <<"bill", Format(congress), Lower(bill_type.s)>>,
                            WithSort(WithDates(FormatOffset)), IntLimit(20)))
        /\ UNCHANGED <<config, client>>
        /\ UNCHANGED outsideEndpoint

\* BillEndpoint.get_bill(bill_type, bill_number, congress)
bill_get_bill(bill_type, bill_number, c) ==
    LET args == Args(bill_type, bill_number, c)
        congress == OrDefault(c, client.config.default_congress)
        e == FirstError(<<validate_bill_type(bill_type),
                          validate_bill_number(bill_number),
                          validate_congress(congress)>>)
    IN  /\ CanInvoke
        /\ call' = (IF e # NoError THEN Raises("bill.get_bill", args, e)
                ELSE Enters("bill.get_bill", args,
                            <<"bill", Format(congress), Lower(bill_type.s), Format(bill_number)>>,
                            FormatOnly, IntLimit(20)))
        /\ UNCHANGED <<config, client>>
        /\ UNCHANGED outsideEndpoint

\* BillEndpoint.get_actions, get_amendments, get_committees, get_cosponsors,
\* get_related_bills, get_subjects, get_summaries, get_text, get_titles
bill_sub_resource(method, bill_type, bill_number, c) ==
    LET args == Args(bill_type, bill_number, c)
        e == validate_bill_type(bill_type)
        congress == OrDefault(c, client.config.default_congress)
    IN  /\ CanInvoke
        /\ call' = (IF e # NoError THEN Raises("bill." \o method, args, e)
                ELSE Enters("bill." \o method, args,
                            <<"bill", Format(congress), Lower(bill_type.s),
                              Format(bill_number), BillSuffix(method)>>,
                            BillParams(method), StrLimit("all")))
        /\ UNCHANGED <<config, client>>
        /\ UNCHANGED outsideEndpoint

\* the body of the def at line 64: list_by_congress(congress)
list_by_congress_64(form, d) ==
    LET c == OrNone(BoundTo(d, form, "congress"))
        args == Args(AbsentV, AbsentV, c)
        congress == OrDefault(c, client.config.default_congress)
    IN  Enters("amendment.list_by_congress", args,
               <<"amendment", Format(congress)>>, WithDates(FormatOffset), IntLimit(20))

\* the body of the def at line 96: list_by_congress(amendment_type, congress)
list_by_congress_96(form, d) ==
    LET amendment_type == BoundTo(d, form, "amendment_type")
        c == OrNone(BoundTo(d, form, "congress"))
        args == Args(amendment_type, AbsentV, c)
        e == validate_amendment_type(amendment_type, FALSE)
        congress == OrDefault(c, client.config.default_congress)
    IN  IF e # NoError THEN Raises("amendment.list_by_congress", args, e)
        ELSE Enters("amendment.list_by_congress", args,
                    <<"amendment", Format(congress), Lower(amendment_type.s)>>,
                    WithDates(FormatOffset), IntLimit(20))

\* client.amendment.list_by_congress(...): the call binds its arguments to
\* the def the name denotes, then runs that body
amendment_list_by_congress(form) ==
    LET d == Resolve(AmendmentEndpointDefs, "list_by_congress")
        e == BindError(d, form)
        outcome == IF e # NoError THEN Raises("amendment.list_by_congress", NoArgs, e)
                   ELSE IF d.line = 64 THEN list_by_congress_64(form, d)
                   ELSE list_by_congress_96(form, d)
    IN  /\ CanInvoke
        /\ call' = ([outcome EXCEPT !.form = form])
        /\ UNCHANGED <<config, client>>
        /\ UNCHANGED outsideEndpoint

\* AmendmentEndpoint.get_amendment(amendment_type, amendment_number, congress)
amendment_get_amendment(amendment_type, amendment_number, c) ==
    LET args == Args(amendment_type, amendment_number, c)
        e == validate_amendment_type(amendment_type, FALSE)
        congress == OrDefault(c, client.config.default_congress)
    IN  /\ CanInvoke
        /\ call' = (IF e # NoError THEN Raises("amendment.get_amendment", args, e)
                ELSE Enters("amendment.get_amendment", args,
                            <<"amendment", Format(congress), Lower(amendment_type.s),
                              Format(amendment_number)>>,
                            FormatOnly, IntLimit(20)))
        /\ UNCHANGED <<config, client>>
        /\ UNCHANGED outsideEndpoint

\* AmendmentEndpoint.get_actions, get_cosponsors, get_amendments
amendment_sub_resource(method, amendment_type, amendment_number, c) ==
    LET args == Args(amendment_type, amendment_number, c)
        e == validate_amendment_type(amendment_type, FALSE)
        congress == OrDefault(c, client.config.default_congress)
    IN  /\ CanInvoke
        /\ call' = (IF e # NoError THEN Raises("amendment." \o method, args, e)
                ELSE Enters("amendment." \o method, args,
                            <<"amendment", Format(congress), Lower(amendment_type.s),
                              Format(amendment_number), AmendmentSuffix(method)>>,
                            FormatOffset, StrLimit("all")))
        /\ UNCHANGED <<config, client>>
        /\ UNCHANGED outsideEndpoint

\* congress < MIN_TEXT_CONGRESS in get_text: what it raises
check_text_congress(congress) ==
    IF congress.kind = "str" THEN NotComparable
    ELSE IF congress.n < MIN_TEXT_CONGRESS THEN AmendmentTextError(congress)
    ELSE NoError

\* AmendmentEndpoint.get_text(amendment_type, amendment_number, congress)
amendment_get_text(amendment_type, amendment_number, c) ==
    LET args == Args(amendment_type, amendment_number, c)
        congress == OrDefault(c, client.config.default_congress)
        e == FirstError(<<validate_amendment_type(amendment_type, TRUE),
                          check_text_congress(congress)>>)
    IN  /\ CanInvoke
        /\ call' = (IF e # NoError THEN Raises("amendment.get_text", args, e)
                ELSE Enters("amendment.get_text", args,
                            <<"amendment", Format(congress), Lower(amendment_type.s),
                              Format(amendment_number), "text">>,
                            FormatOffset, StrLimit("all")))
        /\ UNCHANGED <<config, client>>
        /\ UNCHANGED outsideEndpoint

EndpointNext ==
    \/ \E env \in EnvInputs : LoadConfig(env)
    \/ NewClient
    \/ \E sort \in SortInputs, l \in ListLimits : bill_list_all(sort, l)
    \/ \E cm \in CurrentMemberInputs, l \in ListLimits : member_list_members(cm, l)
    \/ \E t \in TypeInputs, c \in CongressInputs : bill_list_by_type(t, c)
    \/ \E t \in TypeInputs, n \in NumberInputs, c \in CongressInputs : bill_get_bill(t, n, c)
    \/ \E m \in BillSubResources, t \in TypeInputs, n \in NumberInputs, c \in CongressInputs :
           bill_sub_resource(m, t, n, c)
    \/ \E form \in ListByCongressForms : amendment_list_by_congress(form)
    \/ \E t \in TypeInputs, n \in NumberInputs, c \in CongressInputs :
           amendment_get_amendment(t, n, c)
    \/ \E m \in AmendmentSubResources, t \in TypeInputs, n \in NumberInputs, c \in CongressInputs :
           amendment_sub_resource(m, t, n, c)
    \/ \E t \in TypeInputs, n \in NumberInputs, c \in CongressInputs : amendment_get_text(t, n, c)

EndpointSpec == Init /\ [][EndpointNext]_vars

(***************************************************************************)
(* Claims about configuration and the endpoint methods                     *)
(***************************************************************************)
\* the API key the environment held when load_config ran
EnvKey == config.env["CONGRESS_API_KEY"]

Called(method) ==
    /\ call.pc # "Start"
    /\ call.method = method
    /\ call.args.type.kind = "str"

\* the congress the caller means: the supplied int, or 118 when omitted
SuppliedCongress == IF call.args.congress.kind = "int" THEN call.args.congress.n ELSE 118

\* C16 as stated: for a valid amendment type and a congress that is an int or
\* omitted, get_text raises AmendmentTextError exactly when the effective
\* congress is below 117, and from 117 on it calls _get with
\* amendment/{congress}/{type}/{number}/text.
C16_TextFrom117 ==
    (/\ Called("amendment.get_text")
     /\ call.args.congress.kind \in {"int", "none"}
     /\ Lower(call.args.type.s) \in {"hamdt", "samdt", "suamdt", "sres"}) =>
        /\ (call.error.type = "AmendmentTextError") <=> (SuppliedCongress < 117)
        /\ SuppliedCongress >= 117 =>
               /\ call.pc = "Entered"
               /\ call.endpoint = <<"amendment", ToString(SuppliedCongress),
                                    Lower(call.args.type.s), Format(call.args.number), "text">>

PositiveInt(v) == v.kind = "int" /\ v.n > 0

\* C17 as stated: get_bill raises BillTypeError for a type outside the valid
\* set, else BillNumberError for a bill number that is not a positive
\* integer, else CongressNumberError for a supplied congress that is not a
\* positive integer (0 and negatives included), and never calls _get then.
C17_GetBillValidates ==
    Called("bill.get_bill") =>
        LET badType == Lower(call.args.type.s) \notin
                           {"hr", "s", "hjres", "sjres", "hconres", "sconres", "hres", "sres"}
            badNumber == ~PositiveInt(call.args.number)
            badCongress == call.args.congress # NoneV /\ ~PositiveInt(call.args.congress)
        IN  /\ badType => call.error.type = "BillTypeError"
            /\ (~badType /\ badNumber) => call.error.type = "BillNumberError"
            /\ (~badType /\ ~badNumber /\ badCongress) => call.error.type = "CongressNumberError"
            /\ (badType \/ badNumber \/ badCongress) => call.pc = "Raised" /\ call.endpoint = <<>>

BillTypedMethods ==
    {"bill.list_by_type", "bill.get_bill"} \cup {"bill." \o m : m \in BillSubResources}

AmendmentTypedMethods ==
    {"amendment.list_by_congress", "amendment.get_amendment", "amendment.get_text"}
        \cup {"amendment." \o m : m \in AmendmentSubResources}

OnlyCongress(form) ==
    \/ form.pos = <<>> /\ "amendment_type" \notin DOMAIN form.kw
    \/ Len(form.pos) = 1 /\ form.pos[1].kind = "int" /\ form.kw = EmptyDict

CongressOf(form) ==
    IF form.pos # <<>> THEN form.pos[1]
    ELSE IF "congress" \in DOMAIN form.kw THEN form.kw["congress"]
    ELSE NoneV

\* C19 as stated: amendment.list_by_congress called with a congress and no
\* amendment type calls _get with amendment/{congress}, and with neither it
\* calls _get with amendment/118.
C19_ListByCongressOnly ==
    (/\ call.pc # "Start"
     /\ call.method = "amendment.list_by_congress"
     /\ OnlyCongress(call.form)) =>
        /\ call.pc = "Entered"
        /\ call.endpoint = <<"amendment", Format(OrDefault(CongressOf(call.form), 118))>>

(***************************************************************************)
(* Concurrent fetches through one endpoint and one client                  *)
(***************************************************************************)
\* the limits the concurrent callers pass
ConcurrentLimits == {StrLimit("all"), IntLimit(20), IntLimit(0)}

\* fetch f runs lines 35-55 of _get(endpoint, params, limit), params being
\* None or a reference to a dict of the caller
StartFetch(f, endpoint, cell, l) ==
    LET fresh == cell = NoCell \/ heap[cell] = EmptyDict
        params_at == IF fresh THEN LocalCell(f) ELSE cell
        heap1 == IF fresh THEN [heap EXCEPT ![LocalCell(f)] = EmptyDict] ELSE heap
        current == deepcopy(f, params_at)
        invalid == (l.isInt /\ ~ValidIntLimit(l)) \/ (~l.isInt /\ l.s # "all")
        q == FirstQuery(heap1[params_at], IF l.isInt THEN l.n ELSE objects.MAX_LIMIT)
        called == [frame[f] EXCEPT !.endpoint = endpoint, !.cell = cell, !.limit = l,
                                   !.params = params_at]
    IN  /\ frame[f].pc = "Start"
        /\ IF invalid
           THEN /\ heap' = [heap1 EXCEPT ![current] = DictDel(heap1[params_at], "limit")]
                /\ frame' = [frame EXCEPT ![f] =
                       [called EXCEPT !.pc = "Failed",
                                      !.error = IF l.isInt THEN InvalidIntLimit ELSE InvalidLimit]]
           ELSE /\ heap' = [heap1 EXCEPT ![current] = q]
                /\ frame' = [frame EXCEPT ![f] =
                       [called EXCEPT !.pc = IF l.isInt THEN "Bounded" ELSE "Idle",
                                      !.requests = <<Request(endpoint, q)>>,
                                      !.inflight = TRUE]]
        /\ UNCHANGED objects
        /\ UNCHANGED outsideConcurrent

\* the client.get of fetch f comes back: lines 46, 55, 81-86
Answer(f) ==
    LET fr == frame[f]
        a == Serve(fr.requests[Len(fr.requests)].endpoint, fr.requests[Len(fr.requests)].query)
        got == [fr EXCEPT !.inflight = FALSE]
        raise(e) == [got EXCEPT !.pc = "Failed", !.error = e, !.result = NoBody]
    IN  /\ fr.inflight
        /\ frame' = [frame EXCEPT ![f] =
               IF ~a.ok THEN raise(a.error)
               ELSE IF fr.pc = "Bounded" THEN [got EXCEPT !.pc = "Done", !.result = a.body]
               ELSE IF fr.pc = "Idle"
               THEN [got EXCEPT !.pc = "FirstPageFetched", !.response = a.body]
               ELSE IF a.body.kind # "json"
               THEN [raise(Error("TypeError", "byte indices must be integers or slices, not str"))
                        EXCEPT !.response = a.body]
               ELSE IF ~HasKey(a.body, fr.data_key)
               THEN [raise(Error("KeyError", fr.data_key)) EXCEPT !.response = a.body]
               ELSE [got EXCEPT !.response = a.body,
                                !.pagination = GetPagination(a.body),
                                !.all_results = Extend(fr.all_results, Data(a.body, fr.data_key)),
                                !.offset = AdvanceOffset(fr.offset, Data(a.body, fr.data_key))]]
        /\ UNCHANGED <<heap, objects>>
        /\ UNCHANGED outsideConcurrent

\* fetch f runs lines 57-71
Inspect(f) ==
    LET fr == frame[f]
        key == FirstDataKey(fr.response.keys)
        pg == GetPagination(fr.response)
    IN  /\ fr.pc = "FirstPageFetched"
        /\ frame' = [frame EXCEPT ![f] =
               IF fr.response.kind # "json"
               THEN [fr EXCEPT !.pc = "Failed",
                               !.error = Error("AttributeError",
                                               "'bytes' object has no attribute 'keys'")]
               ELSE IF MissingDataKey(key)
               THEN [fr EXCEPT !.pc = "Failed", !.error = NoDataKey]
               ELSE IF "next" \notin pg.has
               THEN [fr EXCEPT !.pc = "Done", !.data_key = key, !.pagination = pg,
                               !.total_count = TotalCount(pg),
                               !.result = SinglePage(fr.response, key, TotalCount(pg))]
               ELSE [fr EXCEPT !.pc = "Paging", !.data_key = key, !.pagination = pg,
                               !.total_count = TotalCount(pg),
                               !.all_results = Data(fr.response, key),
                               !.offset = InitialOffset(Data(fr.response, key))]]
        /\ UNCHANGED <<heap, objects>>
        /\ UNCHANGED outsideConcurrent

\* a variant that writes offset and limit into params itself
Continue_InPlace(f) ==
    LET fr == frame[f]
        q == NextQuery(heap[fr.params], fr.offset)
    IN  /\ fr.pc = "Paging" /\ ~fr.inflight
        /\ "next" \in fr.pagination.has
        /\ heap' = [heap EXCEPT ![fr.params] = q]
        /\ frame' = [frame EXCEPT ![f] =
               [fr EXCEPT !.requests = Append(fr.requests, Request(fr.endpoint, q)),
                          !.inflight = TRUE]]
        /\ UNCHANGED objects
        /\ UNCHANGED outsideConcurrent

\* fetch f runs lines 74-81: the next request is built from params and issued
Continue(f) ==
    LET fr == frame[f]
        current == deepcopy(f, fr.params)
        q == NextQuery(heap[fr.params], fr.offset)
    IN  /\ fr.pc = "Paging" /\ ~fr.inflight
        /\ "next" \in fr.pagination.has
        /\ heap' = [heap EXCEPT ![current] = q]
        /\ frame' = [frame EXCEPT ![f] =
               [fr EXCEPT !.requests = Append(fr.requests, Request(fr.endpoint, q)),
                          !.inflight = TRUE]]
        /\ UNCHANGED objects
        /\ UNCHANGED outsideConcurrent

\* fetch f runs lines 74, 88-95
Finish(f) ==
    LET fr == frame[f]
    IN  /\ fr.pc = "Paging" /\ ~fr.inflight
        /\ "next" \notin fr.pagination.has
        /\ frame' = [frame EXCEPT ![f] =
               [fr EXCEPT !.pc = "Done",
                          !.result = FinalResponse(fr.data_key, fr.all_results,
                                                   fr.total_count, fr.response)]]
        /\ UNCHANGED <<heap, objects>>
        /\ UNCHANGED outsideConcurrent

ConcurrentNext ==
    \/ \E f \in FetchIds, e \in Endpoints, c \in CallerCells \cup {NoCell}, l \in ConcurrentLimits :
           StartFetch(f, e, c, l)
    \/ \E f \in FetchIds : Answer(f)
    \/ \E f \in FetchIds : Inspect(f)
    \/ \E f \in FetchIds : Continue(f)
    \/ \E f \in FetchIds : Finish(f)

ConcurrentSpec == Init /\ [][ConcurrentNext]_vars

\* the dict the caller of fetch f passed, as it was before any fetch started
PassedParams(f) == IF frame[f].cell = NoCell THEN EmptyDict ELSE HeapInit[frame[f].cell]

\* what fetch f does when it runs with nothing else running
Alone(f) == AloneRun(frame[f].endpoint, PassedParams(f), frame[f].limit)

IsPrefix(s, t) == Len(s) <= Len(t) /\ \A i \in 1..Len(s) : s[i] = t[i]

\* C20: under every interleaving of the steps of the fetches, the dicts of
\* the callers and the endpoint, client and config objects stay as they
\* were; each fetch has issued a prefix of the requests it issues when run
\* alone, and once it has ended it has issued exactly those requests and
\* returned or raised exactly what it does when run alone.
C20_NoInterference ==
    /\ \A c \in CallerCells : heap[c] = HeapInit[c]
    /\ objects = SharedObjects
    /\ \A f \in FetchIds :
           frame[f].pc # "Start" =>
               /\ IsPrefix(frame[f].requests, Alone(f).requests)
               /\ frame[f].pc \in {"Done", "Failed"} =>
                      /\ frame[f].requests = Alone(f).requests
                      /\ frame[f].result = Alone(f).result
                      /\ frame[f].error = Alone(f).error

C20_Witness ==
    /\ frame[1].pc = "Done" /\ frame[1].endpoint = "bill"
    /\ frame[2].pc = "Failed" /\ frame[2].endpoint = "amendment"
    /\ frame[1].cell = CallerCell(1) /\ frame[2].cell = CallerCell(1)
    /\ Len(frame[1].requests) = 3 /\ Len(frame[2].requests) = 2
    /\ frame[1].result.data["bills"] = <<"r1", "r2", "r1">>
    /\ frame[2].error = Error("CongressAPIError", "API request failed: 500")

(***************************************************************************)
(* Claims about the order, offsets and limits of the requests of a fetch   *)
(***************************************************************************)
\* C21: a request is issued only while no request of the fetch is
\* outstanding, and in an 'all' fetch only after the pages of all earlier
\* requests have been received; while a request is outstanding, exactly
\* the pages of the earlier requests have been received.
C21_Sequential ==
    /\ [][(requests' # requests) =>
              /\ ~inflight
              /\ inflight'
              /\ Len(requests') = Len(requests) + 1
              /\ AllFetch' => Len(served) = Len(requests)]_vars
    /\ []((AllFetch /\ inflight) => Len(served) = Len(requests) - 1)

C21_Witness ==
    /\ AllFetch
    /\ inflight
    /\ Len(requests) = 3
    /\ Len(served) = 2
    /\ pc = "Paging"

\* C22 as stated: in an 'all' fetch the offsets of the requests never
\* decrease from one request to the next (a request without offset asks
\* from 0).
C22_OffsetsMonotone ==
    AllFetch =>
        \A n \in 1..(Len(requests) - 1) :
            OffsetOf(requests[n]) <= OffsetOf(requests[n + 1])

\* C23: every request carries a limit in 1..250: the limit argument on the
\* bounded path, 250 on every request of an 'all' fetch, whatever 'limit'
\* entry the caller's params hold.
C23_LimitFromArgument ==
    \A n \in 1..Len(requests) :
        /\ "limit" \in DOMAIN requests[n]
        /\ requests[n]["limit"] \in 1..250
        /\ requests[n]["limit"] = (IF limit.isInt THEN limit.n ELSE 250)

C23_Witness ==
    /\ AllFetch
    /\ Len(requests) = 3
    /\ "limit" \in DOMAIN caller_params.d
    /\ caller_params.d["limit"] = 5
    /\ requests[1]["limit"] = 250
    /\ requests[3]["limit"] = 250

\* C24: whenever the latest page has next and nothing failed, the loop
\* goes on to issue one more request, whatever the number of requests made
\* so far (up to the bound of the model); the loop is left only to Done after a
\* page without next or to Failed with an error; a fetch that has ended
\* after several pages has seen a page without next or an error.
C24_NoCeiling ==
    /\ (AllFetch /\ pc = "Paging" /\ ~inflight /\ "next" \in pagination.has
            /\ Len(requests) < MaxCalls)
           ~> (pc = "Paging" /\ inflight)
    /\ [][(pc = "Paging" /\ pc' # "Paging") =>
              \/ pc' = "Done" /\ "next" \notin pagination.has /\ ~inflight
              \/ pc' = "Failed" /\ error' # NoError]_vars
    /\ []((AllFetch /\ pc \in {"Done", "Failed"} /\ Len(requests) >= 2) =>
              (error # NoError \/ ~LatestHasNext(response)))

C24_Witness ==
    /\ AllFetch
    /\ pc = "Paging"
    /\ ~inflight
    /\ Len(requests) = 3
    /\ Len(served) = 3
    /\ "next" \in pagination.has
    /\ raised = NoError

\* C25 as stated: an 'all' fetch that received a raw payload and failed
\* without a transport failure failed with the ValueError of a response
\* without data key.
C25_RawIsShapeError ==
    (AllFetch /\ response.kind = "raw" /\ pc = "Failed" /\ raised = NoError) =>
        error = Error("ValueError", "Unable to determine data key in response")

(***************************************************************************)
(* An 'all' fetch against a well-behaved server                            *)
(***************************************************************************)
\* the params of the callers: no offset, or a starting offset
StartParams ==
    {[k \in {"format"} |-> "json"]}
        \cup {[k \in {"format", "offset"} |-> IF k = "offset" THEN o ELSE "json"] :
                 o \in {0, 1, 7, 249, 250, 251, 300, 499, 700}}

\* _get(endpoint, params, 'all') runs from start to end against the
\* collection of total records
FetchAll(p, total) ==
    /\ stitched.pc = "Start"
    /\ stitched' = [pc |-> "Ended", params |-> p, total |-> total,
                    outcome |-> AloneRun(Collection(total), p, StrLimit("all"))]
    /\ UNCHANGED outsideStitched

StitchedNext == \E p \in StartParams, total \in Totals : FetchAll(p, total)

StitchedSpec == Init /\ [][StitchedNext]_vars

\* the offset the caller started from
StartOffset == IF "offset" \in DOMAIN stitched.params THEN stitched.params["offset"] ELSE 0

\* C26 as stated: against the well-behaved server, an 'all' fetch started
\* at offset s returns the records s, s+1, ..., total-1, each once and in
\* order.
C26_StitchedExactly ==
    stitched.pc = "Ended" =>
        /\ stitched.outcome.error = NoError
        /\ stitched.outcome.result.data["bills"] =
               [i \in 1..(IF stitched.total > StartOffset THEN stitched.total - StartOffset ELSE 0)
                    |-> StartOffset + i - 1]

\* C27: whatever a call of _get does (invalid limit, bounded, 'all' with
\* one or several pages, returned or raised), the dict its caller passed
\* holds the keys and values it held before the call, 'limit' and 'offset'
\* included.
C27_CallerParamsIntact ==
    \A f \in FetchIds :
        (frame[f].pc # "Start" /\ frame[f].cell # NoCell) =>
            /\ DOMAIN heap[frame[f].cell] = DOMAIN HeapInit[frame[f].cell]
            /\ \A k \in DOMAIN heap[frame[f].cell] :
                   heap[frame[f].cell][k] = HeapInit[frame[f].cell][k]
            /\ frame[f].cell = CallerCell(1) =>
                   /\ heap[CallerCell(1)]["limit"] = 5
                   /\ heap[CallerCell(1)]["offset"] = 7

C27_Witness ==
    /\ frame[1].pc = "Done" /\ frame[1].endpoint = "bill" /\ frame[1].cell = CallerCell(1)
    /\ Len(frame[1].requests) = 3
    /\ frame[1].requests[3].query["offset"] = 251
    /\ frame[2].pc = "Failed" /\ frame[2].limit = IntLimit(0) /\ frame[2].cell = CallerCell(1)
    /\ heap[CallerCell(1)] = [k \in {"offset", "limit"} |-> IF k = "offset" THEN 7 ELSE 5]

====
